---- MODULE Spec2Model ----
(***************************************************************************)
(* A model of src/proxy.h: the proxy container (one dispatch-table pointer *)
(* meta_ next to an inline buffer ptr_), the lifetime entries of the       *)
(* dispatch table, the two holders sbo_ptr and deep_ptr, and the overload  *)
(* resolver used by invoke.                                                *)
(*                                                                         *)
(* Sequential C++ code is written as operators from a machine state s to   *)
(* the SET of machine states the code can end in (a hook may or may not    *)
(* throw, the allocator may return any free block).  s.exc says that an    *)
(* exception is propagating.  Every action of Next runs one whole member   *)
(* function of proxy.                                                      *)
(***************************************************************************)
EXTENDS Integers, Sequences, FiniteSets, TLC

\* ------------------------------------------------------------- bounds
\* values a held object can take: 1..MaxVal
MaxVal == 2
\* heap blocks the allocator can hand out: 1..MaxAddr
MaxAddr == 3

Values == 1..MaxVal
Addrs == 1..MaxAddr

\* ---------------------------------------------- enum constraint_level
none == 0
nontrivial == 1
nothrow == 2
trivial == 3
Levels == {none, nontrivial, nothrow, trivial}


\* ------------------------------------------------------ concrete types
\* The value types wrapped in the model: "int" (every special member is
\* trivial) and "obj" (a class whose constructors, copy, move and destructor
\* are user-provided and may throw).
ValueTypes == {"int", "obj"}
SizeOfPtr == 8
SizeOfValue(T) == IF T = "int" THEN 4 ELSE 16
\* what the type traits of <type_traits> answer for a value type
ValueLevel(T) == IF T = "int" THEN trivial ELSE nontrivial

sbo_ptr(T) == [kind |-> "sbo", vt |-> T]
deep_ptr(T) == [kind |-> "deep", vt |-> T]
HolderTypes == {sbo_ptr(T) : T \in ValueTypes} \cup {deep_ptr(T) : T \in ValueTypes}

\* sizeof(P)
SizeOf(P) == IF P.kind = "sbo" THEN SizeOfValue(P.vt) ELSE SizeOfPtr
\* strongest level of copy construction P offers
CopyCap(P) == IF P.kind = "sbo" THEN ValueLevel(P.vt) ELSE nontrivial
\* strongest level of move construction P offers
MoveCap(P) == IF P.kind = "sbo" THEN ValueLevel(P.vt) ELSE nothrow
\* strongest level of destruction P offers
DtorCap(P) == IF P.kind = "sbo" THEN ValueLevel(P.vt) ELSE nothrow
\* P(args...) from a value may throw
CtorMayThrow(P) == P.kind = "deep" \/ ValueLevel(P.vt) < nothrow
CopyMayThrow(P) == CopyCap(P) < nothrow
MoveMayThrow(P) == MoveCap(P) < nothrow
DtorMayThrow(P) == DtorCap(P) < nothrow

has_copyability(P, level) ==
  CASE level = trivial -> CopyCap(P) = trivial
    [] level = nothrow -> CopyCap(P) >= nothrow
    [] level = nontrivial -> CopyCap(P) >= nontrivial
    [] level = none -> TRUE
    [] OTHER -> FALSE
has_relocatability(P, level) ==
  CASE level = trivial -> MoveCap(P) = trivial /\ DtorCap(P) = trivial
    [] level = nothrow -> MoveCap(P) >= nothrow /\ DtorCap(P) >= nothrow
    [] level = nontrivial -> MoveCap(P) >= nontrivial /\ DtorCap(P) >= nontrivial
    [] level = none -> TRUE
    [] OTHER -> FALSE
has_destructibility(P, level) ==
  CASE level = trivial -> DtorCap(P) = trivial
    [] level = nothrow -> DtorCap(P) >= nothrow
    [] level = nontrivial -> DtorCap(P) >= nontrivial
    [] level = none -> TRUE
    [] OTHER -> FALSE
requires_lifetime_meta(level) == level > none /\ level < trivial

\* ------------------------------------------------------------- facades
\* proxiable_ptr_constraints (max_align is not modelled: every holder of the
\* model has the alignment of a pointer or less)
relocatable_ptr_constraints ==
  [max_size |-> 2 * SizeOfPtr, copyability |-> none,
   relocatability |-> nothrow, destructibility |-> nothrow]
copyable_ptr_constraints ==
  [max_size |-> 2 * SizeOfPtr, copyability |-> nontrivial,
   relocatability |-> nothrow, destructibility |-> nothrow]
trivial_ptr_constraints ==
  [max_size |-> SizeOfPtr, copyability |-> trivial,
   relocatability |-> trivial, destructibility |-> trivial]
Facade(m, c, r, d) ==
  [max_size |-> m, copyability |-> c, relocatability |-> r, destructibility |-> d]
\* The facades the model is run with: the three presets of the source, the
\* facades with one level for all three constraints (with a buffer of one
\* pointer and of two), and two facades that pair a trivial move or copy
\* with a destroy entry.
Facades ==
  {relocatable_ptr_constraints, copyable_ptr_constraints, trivial_ptr_constraints}
  \cup {Facade(m, l, l, l) : m \in {SizeOfPtr, 2 * SizeOfPtr},
                             l \in {nontrivial, nothrow, trivial}}
  \cup {Facade(2 * SizeOfPtr, trivial, trivial, nothrow),
        Facade(2 * SizeOfPtr, trivial, nothrow, nothrow)}


\* --------------------------------------------------------------- state
Slots == {"a", "b"}
\* "temp" is the local proxy of operator=(const proxy&), operator=(P&&)
\* and swap; it exists only inside one call
AllSlots == Slots \cup {"temp"}

VARIABLES
  F,       \* the facade's constraints (fixed at Init: one facade per run)
  alive,   \* alive[p]: the proxy object p is within its lifetime
  meta,    \* meta[p]: proxy::meta_, 0 (nullptr) or the address of a table
  buf,     \* buf[p]: what proxy::ptr_ holds: the holder object living there
  heap,    \* heap[a]: the value in block a of the free store, 0 when free
  last     \* the last member function called and how it ended

vars == <<F, alive, meta, buf, heap, last>>

NULL == 0
NoType == [kind |-> "none", vt |-> "none"]
\* a buffer in which no holder lives (never constructed, destroyed, or
\* relocated away)
NoBuf == [ty |-> NoType, val |-> 0, blk |-> 0]
\* sbo_ptr<T>{value_}: the value is inside the buffer
\* deep_ptr<T>{ptr_}: the buffer holds the address of a heap block (0: nullptr)
Holder(P, v, a) == [ty |-> P, val |-> v, blk |-> a]
Live(b) == b.ty.kind # "none"

\* ----------------------------------------------------- dispatch tables
\* One table per (F, P): Traits::meta_storage<P>, a static constexpr variable
\* template, constant-initialised before any code runs.  TableTypes[i] is the
\* holder type the table at address i was instantiated for.
TableTypes == <<sbo_ptr("int"), sbo_ptr("obj"), deep_ptr("int"), deep_ptr("obj")>>
NumTables == Len(TableTypes)
\* (mutant) a table created on first use without synchronisation: a thread
\* that binds while another thread is in the middle of initialize gets an
\* instance of its own
meta_storage_per_thread(P) ==
  LET i == CHOOSE j \in 1..NumTables : TableTypes[j] = P
      racing == {q \in Slots : Live(buf[q]) /\ ~alive[q] /\ buf[q].ty = P}
  IN  IF Cardinality(racing) > 1 THEN i + NumTables ELSE i
\* &Traits::template meta_storage<P>
meta_storage(P) == CHOOSE i \in 1..NumTables : TableTypes[i] = P
\* the holder type the dispatchers of the table at address m were instantiated for
TableAt(m) == TableTypes[((m - 1) % NumTables) + 1]
\* the lifetime part of the table: an entry is the holder type its dispatcher
\* was instantiated for, or "absent" when lifetime_meta is void
Absent == [kind |-> "absent", vt |-> "absent"]
lifetime_meta_above_none(level, P) == IF level > none THEN P ELSE Absent
lifetime_meta(level, P) == IF requires_lifetime_meta(level) THEN P ELSE Absent
meta_of(P) ==
  [copy |-> lifetime_meta(F.copyability, P),
   relocate |-> lifetime_meta(F.relocatability, P),
   destroy |-> lifetime_meta(F.destructibility, P),
   dispatchers |-> P]

\* ------------------------------------------- proxy's constexpr booleans
applicable_ptr(P) ==
  /\ SizeOf(P) <= F.max_size
  /\ has_copyability(P, F.copyability)
  /\ has_relocatability(P, F.relocatability)
  /\ has_destructibility(P, F.destructibility)
proxiable(P) == applicable_ptr(P)
HasTrivialCopyConstructor == F.copyability = trivial
HasNothrowCopyConstructor == F.copyability >= nothrow
HasCopyConstructor == F.copyability >= nontrivial
HasNothrowMoveConstructor == F.relocatability >= nothrow
HasMoveConstructor == F.relocatability >= nontrivial
HasTrivialDestructor == F.destructibility = trivial
HasNothrowDestructor == F.destructibility >= nothrow
HasDestructor == F.destructibility >= nontrivial
\* HasNothrowPolyConstructor<P, P>: the holder is built from an rvalue of P
HasNothrowPolyConstructor(P) == proxiable(P) /\ MoveCap(P) >= nothrow
HasPolyConstructor(P) == proxiable(P)
HasNothrowPolyAssignment(P) == HasNothrowPolyConstructor(P) /\ HasNothrowDestructor
HasPolyAssignment(P) == HasPolyConstructor(P) /\ HasDestructor
HasTrivialCopyAssignment == HasTrivialCopyConstructor /\ HasTrivialDestructor
HasNothrowCopyAssignment == HasNothrowCopyConstructor /\ HasNothrowDestructor
HasCopyAssignment ==
  HasNothrowCopyAssignment \/ (HasCopyConstructor /\ HasMoveConstructor /\ HasDestructor)
HasNothrowMoveAssignment == HasNothrowMoveConstructor /\ HasNothrowDestructor
HasMoveAssignment == HasMoveConstructor /\ HasDestructor

\* make_proxy_impl: sbo_ptr<T> when it is proxiable, deep_ptr<T> otherwise
make_proxy_holder(T) == IF proxiable(sbo_ptr(T)) THEN sbo_ptr(T) ELSE deep_ptr(T)

\* ------------------------------------------------------- machine states
\* exc: an exception is propagating, thrown by the table entry or constructor
\* hook; bad: a destructor ran on a buffer in which no holder of its type
\* lives; term: std::terminate was called; ill: the call does not compile;
\* leak: storage was given up while a holder that nothing destroyed lived in it
Cur ==
  [meta |-> meta, buf |-> buf, heap |-> heap,
   exc |-> FALSE, hook |-> "-", bad |-> FALSE, term |-> FALSE, ill |-> FALSE,
   leak |-> FALSE]
Throw(s, h) == [s EXCEPT !.exc = TRUE, !.hook = h]
\* run f on every normal outcome of S; an exception skips it
Then(S, f(_)) == UNION {IF s.exc \/ s.ill THEN {s} ELSE f(s) : s \in S}
FreeAddrs(s) == {a \in Addrs : s.heap[a] = 0}

\* ------------------------------------------------ holders' own members
\* reinterpret_cast<P*>(self)->~P().  ~sbo_ptr destroys value_; ~deep_ptr is
\* delete ptr_.  The holder's lifetime ends even when its destructor throws.
HolderDtor(s, self, P) ==
  LET b == s.buf[self]
      wrong == b.ty # P
      freed == IF P.kind = "deep" /\ b.blk # 0
               THEN [s.heap EXCEPT ![b.blk] = 0] ELSE s.heap
      done == [s EXCEPT !.buf[self] = NoBuf, !.heap = freed, !.bad = @ \/ wrong]
  IN  {done} \cup (IF DtorMayThrow(P) THEN {Throw(done, "destroy")} ELSE {})

\* new(self) P(args...) with a value v (in_place construction), or, when
\* fromHolder, new(self) P(std::move(ptr)) with the caller's holder ptr, whose
\* block the caller allocated.  deep_ptr(Args&&...) is new T(args...).
HolderCtor(s, self, P, v, fromHolder) ==
  IF P.kind = "sbo"
  THEN {[s EXCEPT !.buf[self] = Holder(P, v, 0)]}
       \cup (IF CtorMayThrow(P) THEN {Throw(s, "construct")} ELSE {})
  ELSE {[s EXCEPT !.buf[self] = Holder(P, 0, a), !.heap[a] = v] : a \in FreeAddrs(s)}
       \cup (IF fromHolder THEN {} ELSE {Throw(s, "construct")})

\* ---------------------------------------------- lifetime entries (table)
\* (mutant) a copy entry whose deep_ptr copy takes the source's pointer
copyability_dispatcher_shallow(s, self, rhs, P) ==
  LET src == s.buf[rhs] IN
  {[s EXCEPT !.buf[self] = Holder(P, src.val, src.blk)]}
  \cup (IF CopyMayThrow(P) THEN {Throw(s, "copy")} ELSE {})

\* copyability_meta_provider<C>::dispatcher<P>: new(self) P(*rhs).
\* sbo_ptr(const sbo_ptr&) copies value_; deep_ptr(const deep_ptr&) is
\* ptr_(rhs.ptr_ == nullptr ? nullptr : new T(*rhs.ptr_)).
copyability_dispatcher(s, self, rhs, P) ==
  LET src == s.buf[rhs] IN
  IF P.kind = "sbo"
  THEN {[s EXCEPT !.buf[self] = Holder(P, src.val, 0)]}
       \cup (IF CopyMayThrow(P) THEN {Throw(s, "copy")} ELSE {})
  ELSE IF src.blk = 0
       THEN {[s EXCEPT !.buf[self] = Holder(P, 0, 0)]}
       ELSE {[s EXCEPT !.buf[self] = Holder(P, 0, a), !.heap[a] = s.heap[src.blk]]
               : a \in FreeAddrs(s)}
            \cup {Throw(s, "copy")}

\* (mutant) the relocation entry without rhs->~P()
relocatability_dispatcher_no_dtor(s, self, rhs, P) ==
  LET src == s.buf[rhs]
  IN  {[s EXCEPT !.buf[self] = Holder(P, src.val, src.blk),
                 !.buf[rhs] = IF P.kind = "deep" THEN [src EXCEPT !.blk = 0] ELSE src]}
      \cup (IF MoveMayThrow(P) THEN {Throw(s, "move")} ELSE {})

\* relocatability_meta_provider<C>::dispatcher<P>:
\*   new(self) P(std::move(*rhs)); rhs->~P();
\* deep_ptr(deep_ptr&&) takes the block and nulls rhs.ptr_.
relocatability_dispatcher(s, self, rhs, P) ==
  LET src == s.buf[rhs]
      moved == [s EXCEPT !.buf[self] = Holder(P, src.val, src.blk),
                         !.buf[rhs] = IF P.kind = "deep" THEN [src EXCEPT !.blk = 0]
                                      ELSE src]
  IN  {[t EXCEPT !.hook = IF t.exc THEN "move" ELSE @] : t \in HolderDtor(moved, rhs, P)}
      \cup (IF MoveMayThrow(P) THEN {Throw(s, "move")} ELSE {})

\* destructibility_meta_provider<C>::dispatcher<P>
destructibility_dispatcher(s, self, P) == HolderDtor(s, self, P)

\* ------------------------------------------------------ proxy's members
\* proxy() noexcept { meta_ = nullptr; }
proxy_default(s, self) == {[s EXCEPT !.meta[self] = NULL]}

\* proxy(const proxy& rhs); defaulted (a copy of meta_ and of the bytes of
\* ptr_) when copyability is trivial
proxy_copy(s, self, rhs) ==
  IF HasTrivialCopyConstructor
  THEN {[s EXCEPT !.meta[self] = s.meta[rhs], !.buf[self] = s.buf[rhs]]}
  ELSE IF s.meta[rhs] # NULL
       THEN Then(copyability_dispatcher(s, self, rhs, meta_of(TableAt(s.meta[rhs])).copy),
                 LAMBDA t : {[t EXCEPT !.meta[self] = t.meta[rhs]]})
       ELSE {[s EXCEPT !.meta[self] = NULL]}

\* memcpy(ptr_, rhs.ptr_, max_size) of a trivially relocatable holder: the
\* holder now lives in self, and the bytes left in rhs are dead storage
memcpy_relocate(s, self, rhs) ==
  {[s EXCEPT !.buf[self] = s.buf[rhs], !.buf[rhs] = IF self = rhs THEN @ ELSE NoBuf]}

\* (mutant) proxy(proxy&& rhs) without rhs.meta_ = nullptr
proxy_move_keeps_source(s, self, rhs) ==
  IF s.meta[rhs] # NULL
  THEN Then(IF F.relocatability = trivial
            THEN memcpy_relocate(s, self, rhs)
            ELSE relocatability_dispatcher(s, self, rhs,
                                           meta_of(TableAt(s.meta[rhs])).relocate),
            LAMBDA t : {[t EXCEPT !.meta[self] = t.meta[rhs]]})
  ELSE {[s EXCEPT !.meta[self] = NULL]}

\* proxy(proxy&& rhs)
proxy_move(s, self, rhs) ==
  IF s.meta[rhs] # NULL
  THEN Then(IF F.relocatability = trivial
            THEN memcpy_relocate(s, self, rhs)
            ELSE relocatability_dispatcher(s, self, rhs,
                                           meta_of(TableAt(s.meta[rhs])).relocate),
            LAMBDA t : {[t EXCEPT !.meta[self] = t.meta[rhs], !.meta[rhs] = NULL]})
  ELSE {[s EXCEPT !.meta[self] = NULL]}

\* initialize<P>(args...): new(ptr_) P(args...); meta_ = &meta_storage<P>;
initialize(s, self, P, v, fromHolder) ==
  Then(HolderCtor(s, self, P, v, fromHolder),
       LAMBDA t : {[t EXCEPT !.meta[self] = meta_storage(P)]})

\* ~proxy(); defaulted when destructibility is trivial (no code runs: the
\* trivially destructible holder ends with the proxy that stores it)
proxy_dtor(s, self) ==
  IF HasTrivialDestructor
  THEN {[s EXCEPT !.buf[self] = NoBuf]}
  ELSE IF s.meta[self] # NULL
       THEN destructibility_dispatcher(s, self, meta_of(TableAt(s.meta[self])).destroy)
       ELSE {s}

\* (mutant) reset() without meta_ = nullptr
reset_keeps_meta(s, self) == proxy_dtor(s, self)

\* void reset() { this->~proxy(); meta_ = nullptr; }
reset(s, self) ==
  Then(proxy_dtor(s, self), LAMBDA t : {[t EXCEPT !.meta[self] = NULL]})

\* the end of the scope of the local proxy temp: ~proxy() runs on it, also
\* while an exception unwinds the stack (a second exception then terminates)
temp_scope_exit(S) ==
  UNION {{[t EXCEPT !.exc = s.exc \/ t.exc, !.term = s.exc /\ t.exc,
                    !.hook = IF s.exc THEN s.hook ELSE t.hook,
                    !.leak = @ \/ Live(t.buf["temp"]),
                    !.meta["temp"] = NULL, !.buf["temp"] = NoBuf]
            : t \in proxy_dtor([s EXCEPT !.exc = FALSE], "temp")} : s \in S}

\* proxy& operator=(proxy&& rhs)
proxy_move_assign(s, self, rhs) ==
  IF self # rhs
  THEN Then(IF HasNothrowMoveAssignment THEN proxy_dtor(s, self) ELSE reset(s, self),
            LAMBDA t : proxy_move(t, self, rhs))
  ELSE {s}

\* proxy& operator=(const proxy& rhs): defaulted, or destroy-then-copy, or
\* return *this = proxy{rhs}
proxy_copy_assign(s, self, rhs) ==
  IF HasTrivialCopyAssignment
  THEN {[s EXCEPT !.meta[self] = s.meta[rhs], !.buf[self] = s.buf[rhs]]}
  ELSE IF HasNothrowCopyAssignment
       THEN IF self # rhs
            THEN Then(proxy_dtor(s, self), LAMBDA t : proxy_copy(t, self, rhs))
            ELSE {s}
       ELSE Then(proxy_copy(s, "temp", rhs),
                 LAMBDA t : temp_scope_exit(proxy_move_assign(t, self, "temp")))

\* proxy& operator=(std::nullptr_t): this->~proxy(); new(this) proxy();
proxy_null_assign(s, self) ==
  Then(proxy_dtor(s, self), LAMBDA t : proxy_default(t, self))

\* (mutant) operator=(P&&) that builds the new holder over the old one
proxy_value_assign_no_dtor(s, self, P, v) == initialize(s, self, P, v, TRUE)

\* proxy& operator=(P&& ptr): destroy-then-initialize, or
\* return *this = proxy{std::forward<P>(ptr)}
proxy_value_assign(s, self, P, v) ==
  IF HasNothrowPolyAssignment(P)
  THEN Then(proxy_dtor(s, self), LAMBDA t : initialize(t, self, P, v, TRUE))
  ELSE Then(initialize(s, "temp", P, v, TRUE),
            LAMBDA t : temp_scope_exit(proxy_move_assign(t, self, "temp")))

\* P& emplace(Args&&... args): reset(); initialize<P>(args...);
emplace(s, self, P, v) ==
  Then(reset(s, self), LAMBDA t : initialize(t, self, P, v, FALSE))

\* void swap(proxy& rhs).  With trivial relocatability the body is
\*   std::swap(meta_, rhs.meta_); std::swap(ptr_, rhs.ptr);
\* and proxy has no member ptr: the call is ill-formed, no program is built.
swap(s, self, rhs) ==
  IF F.relocatability = trivial
  THEN {[s EXCEPT !.ill = TRUE]}
  ELSE IF s.meta[self] # NULL
       THEN IF s.meta[rhs] # NULL
            THEN Then(proxy_move(s, "temp", self),
                      LAMBDA t : temp_scope_exit(
                        Then(proxy_move(t, self, rhs),
                             LAMBDA u : proxy_move(u, rhs, "temp"))))
            ELSE proxy_move(s, rhs, self)
       ELSE IF s.meta[rhs] # NULL
            THEN proxy_move(s, self, rhs)
            ELSE {s}

\* -------------------------------------------------- overload resolution
\* The dispatch of the model has the overloads R(int) and R(double).
Overloads == <<"int", "double">>
ArgTypes == {"char", "short", "int", "long", "float", "double", "nullptr_t"}
\* the argument types that are the parameter type of an overload
ExactArgTypes == {Overloads[i] : i \in 1..Len(Overloads)}
Arithmetic == {"char", "short", "int", "long", "float", "double"}
\* [over.ics.rank] for an argument of type A and a by-value parameter of
\* type L: 0 exact match, 1 promotion, 2 conversion, 3 no conversion
ConversionRank_exact(A, L) == IF A = L THEN 0 ELSE 3
ConversionRank(A, L) ==
  CASE A = L -> 0
    [] A \in {"char", "short"} /\ L = "int" -> 1
    [] A = "float" /\ L = "double" -> 1
    [] A \in Arithmetic /\ L \in Arithmetic -> 2
    [] OTHER -> 3
\* dispatch_traits_impl::overload_resolver inherits one operator()(Args...)
\* per overload, and matched_overload is the invoke_result of calling it:
\* the language's overload resolution picks the one best viable candidate;
\* "void" stands for no such type (none viable, or ambiguous)
overload_resolver(A) ==
  LET viable == {i \in 1..Len(Overloads) : ConversionRank(A, Overloads[i]) < 3}
      best == {i \in viable : \A j \in viable \ {i} :
                 ConversionRank(A, Overloads[i]) < ConversionRank(A, Overloads[j])}
  IN  IF best = {} THEN "void" ELSE Overloads[CHOOSE i \in best : TRUE]
\* details::matched_overload<std::tuple<Args&&...>, Os...> of the helper
\* macros: the reduction keeps the overload whose argument types are the same
matched_overload(A) ==
  LET same == {i \in 1..Len(Overloads) : Overloads[i] = A}
  IN  IF same = {} THEN "void" ELSE Overloads[CHOOSE i \in same : \A j \in same : j <= i]

\* ------------------------------------------- the wrapped values' members
\* What D{}(*ptr, x) does on a value of type T holding held: the overload
\* (int) stores x and returns the old value; obj's throws when x is the value
\* it holds.  The overload (double) only reads.
ImplThrows(T, O, held, x) == T = "obj" /\ O = "int" /\ x = held
ImplResult(T, O, held, x) ==
  (IF T = "obj" THEN 1000 ELSE 0) + (IF O = "double" THEN 100 ELSE 0) + 10 * held + x
ImplStore(T, O, held, x) ==
  IF O = "int" /\ ~ImplThrows(T, O, held, x) THEN x ELSE held

\* (mutant) a dispatcher that takes the buffer itself for the value
Deref_buffer(s, self, P) == s.buf[self].val
\* ptr_traits<P>::to_address(*reinterpret_cast<const P*>(erased)) and the
\* value it points to: sbo_ptr gives &value_, deep_ptr gives ptr_
Deref(s, self, P) ==
  IF P.kind = "sbo" THEN s.buf[self].val
  ELSE IF s.buf[self].blk = 0 THEN 0 ELSE s.heap[s.buf[self].blk]
Store(s, self, P, v) ==
  IF P.kind = "sbo" THEN [s EXCEPT !.buf[self].val = v]
  ELSE IF s.buf[self].blk = 0 THEN s ELSE [s EXCEPT !.heap[s.buf[self].blk] = v]


\* -------------------------------------------------------------- actions
NoCall == [op |-> "none", x |-> "-", y |-> "-", out |-> "ok", hook |-> "-", bad |-> FALSE,
           leak |-> FALSE,
           sig |-> "-", res |-> 0, argT |-> "-", arg |-> 0]
Outcome(t) ==
  IF t.ill THEN "ill_formed"
  ELSE IF t.term THEN "terminate"
  ELSE IF t.exc THEN "threw" ELSE "ok"
\* the process runs until std::terminate or a crash ends it
Running == last.out \notin {"terminate", "crash"}

\* storage that is not looked at again once the call on proxy x has returned:
\* the local temp, and x itself when its lifetime has ended or not begun
Gone(p, x, al) == p = "temp" \/ (p = x /\ ~al[p])
\* the state after a call on proxy x that ended in machine state t; al says
\* which proxy objects are within their lifetime afterwards
FinishArg(t, op, x, y, al, T, v) ==
  /\ alive' = al
  /\ meta' = [p \in AllSlots |-> IF Gone(p, x, al) THEN NULL ELSE t.meta[p]]
  /\ buf' = [p \in AllSlots |-> IF Gone(p, x, al) THEN NoBuf ELSE t.buf[p]]
  /\ heap' = t.heap
  /\ last' = [NoCall EXCEPT !.op = op, !.x = x, !.y = y, !.out = Outcome(t),
                            !.argT = T, !.arg = v,
                            !.hook = t.hook, !.bad = t.bad,
                            !.leak = t.leak \/ \E p \in AllSlots :
                                                 Gone(p, x, al) /\ Live(t.buf[p])]
  /\ UNCHANGED F
Finish(t, op, x, y, al) == FinishArg(t, op, x, y, al, "-", 0)

Born(p, t) == [alive EXCEPT ![p] = ~t.exc]

Init ==
  /\ F \in Facades
  /\ alive = [p \in Slots |-> FALSE]
  /\ meta = [p \in AllSlots |-> NULL]
  /\ buf = [p \in AllSlots |-> NoBuf]
  /\ heap = [a \in Addrs |-> 0]
  /\ last = NoCall

\* proxy<F> p;
DefaultConstruct(p) ==
  /\ Running /\ ~alive[p]
  /\ \E t \in proxy_default(Cur, p) : Finish(t, "default_construct", p, "-", Born(p, t))

\* proxy<F> p = make_proxy<F, T>(v);
Construct(p, T, v) ==
  /\ Running /\ ~alive[p]
  /\ HasPolyConstructor(make_proxy_holder(T))
  /\ \E t \in initialize(Cur, p, make_proxy_holder(T), v, FALSE) :
       Finish(t, "construct", p, "-", Born(p, t))

\* proxy<F> p{q};
CopyConstruct(p, q) ==
  /\ Running /\ ~alive[p] /\ alive[q]
  /\ HasCopyConstructor
  /\ \E t \in proxy_copy(Cur, p, q) : Finish(t, "copy_construct", p, q, Born(p, t))

\* proxy<F> p{std::move(q)};
MoveConstruct(p, q) ==
  /\ Running /\ ~alive[p] /\ alive[q]
  /\ HasMoveConstructor
  /\ \E t \in proxy_move(Cur, p, q) : Finish(t, "move_construct", p, q, Born(p, t))

\* p goes out of scope
Destroy(p) ==
  /\ Running /\ alive[p]
  /\ HasDestructor
  /\ \E t \in proxy_dtor(Cur, p) :
       Finish(t, "destroy", p, "-", [alive EXCEPT ![p] = FALSE])

\* p = nullptr;
NullAssign(p) ==
  /\ Running /\ alive[p]
  /\ HasDestructor
  /\ \E t \in proxy_null_assign(Cur, p) : Finish(t, "null_assign", p, "-", alive)

\* p = q;
CopyAssign(p, q) ==
  /\ Running /\ alive[p] /\ alive[q]
  /\ HasCopyAssignment
  /\ \E t \in proxy_copy_assign(Cur, p, q) : Finish(t, "copy_assign", p, q, alive)

\* p = std::move(q);
MoveAssign(p, q) ==
  /\ Running /\ alive[p] /\ alive[q]
  /\ HasMoveAssignment
  /\ \E t \in proxy_move_assign(Cur, p, q) : Finish(t, "move_assign", p, q, alive)

\* p = std::move(holder), holder a P holding v
ValueAssign(p, T, v) ==
  /\ Running /\ alive[p]
  /\ HasPolyAssignment(make_proxy_holder(T))
  /\ \E t \in proxy_value_assign(Cur, p, make_proxy_holder(T), v) :
       Finish(t, "value_assign", p, "-", alive)

\* p.emplace<P>(v);
Emplace(p, T, v) ==
  /\ Running /\ alive[p]
  /\ HasPolyAssignment(make_proxy_holder(T))
  /\ \E t \in emplace(Cur, p, make_proxy_holder(T), v) :
       FinishArg(t, "emplace", p, "-", alive, T, v)

\* p.reset();
Reset(p) ==
  /\ Running /\ alive[p]
  /\ HasDestructor
  /\ \E t \in reset(Cur, p) : Finish(t, "reset", p, "-", alive)

\* p.swap(q);
Swap(p, q) ==
  /\ Running /\ alive[p] /\ alive[q]
  /\ HasMoveConstructor
  /\ \E t \in swap(Cur, p, q) : Finish(t, "swap", p, q, alive)

\* p.invoke<D>(x) with x of type A holding v.  invoke has no check of meta_:
\* on an empty proxy it reads through the null pointer, which is undefined
\* (the process may crash, or go on with any result).
Invoke(p, A, v) ==
  /\ Running /\ alive[p]
  /\ LET O == overload_resolver(A)
         call == [NoCall EXCEPT !.op = "invoke", !.x = p, !.argT = A, !.arg = v,
                                !.sig = O]
     IN  IF O = "void"
         THEN /\ last' = [call EXCEPT !.out = "rejected"]
              /\ UNCHANGED <<F, alive, meta, buf, heap>>
         ELSE IF meta[p] = NULL
         THEN /\ \E o \in {"crash", "ub"}, r \in {0, 1} :
                   last' = [call EXCEPT !.out = o, !.res = r]
              /\ UNCHANGED <<F, alive, meta, buf, heap>>
         ELSE LET P == meta_of(TableAt(meta[p])).dispatchers
                  M == matched_overload(O)
                  held == Deref(Cur, p, P)
                  t == Store(Cur, p, P, ImplStore(P.vt, M, held, v))
              IN  /\ last' = IF ImplThrows(P.vt, M, held, v)
                             THEN [call EXCEPT !.out = "threw"]
                             ELSE [call EXCEPT !.res = ImplResult(P.vt, M, held, v)]
                  /\ buf' = t.buf
                  /\ heap' = t.heap
                  /\ UNCHANGED <<F, alive, meta>>

\* p.reflect(): static_cast<const reflection_type&>(*meta_), no check of
\* meta_ either.  The payload of the model is sizeof(P).
Reflect(p) ==
  /\ Running /\ alive[p]
  /\ LET call == [NoCall EXCEPT !.op = "reflect", !.x = p] IN
     IF meta[p] = NULL
     THEN \E o \in {"crash", "ub"}, r \in {0, 1} :
            last' = [call EXCEPT !.out = o, !.res = r]
     ELSE last' = [call EXCEPT !.res = SizeOf(TableAt(meta[p]))]
  /\ UNCHANGED <<F, alive, meta, buf, heap>>

Next ==
  \/ \E p \in Slots : DefaultConstruct(p)
  \/ \E p \in Slots, T \in ValueTypes, v \in Values : Construct(p, T, v)
  \/ \E p, q \in Slots : CopyConstruct(p, q)
  \/ \E p, q \in Slots : MoveConstruct(p, q)
  \/ \E p \in Slots : Destroy(p)
  \/ \E p \in Slots : NullAssign(p)
  \/ \E p, q \in Slots : CopyAssign(p, q)
  \/ \E p, q \in Slots : MoveAssign(p, q)
  \/ \E p \in Slots, T \in ValueTypes, v \in Values : ValueAssign(p, T, v)
  \/ \E p \in Slots, T \in ValueTypes, v \in Values : Emplace(p, T, v)
  \/ \E p \in Slots : Reset(p)
  \/ \E p, q \in Slots : Swap(p, q)
  \/ \E p \in Slots, A \in ExactArgTypes, v \in Values : Invoke(p, A, v)
  \/ \E p \in Slots : Reflect(p)

Spec == Init /\ [][Next]_vars

\* ------------------------------------------------- binding a call site
\* The same proxies, called with arguments of every type of ArgTypes.
NextBind ==
  \/ \E p \in Slots, T \in ValueTypes, v \in Values : Construct(p, T, v)
  \/ \E p \in Slots, A \in ArgTypes, v \in Values : Invoke(p, A, v)
  \/ \E p \in Slots : Destroy(p)

SpecBind == Init /\ [][NextBind]_vars

\* --------------------------------------------- threads building proxies
\* Each thread builds its own proxy with make_proxy; the two statements of
\* initialize<P> are separate steps, so that the threads interleave between
\* the construction of the holder and the read of &meta_storage<P>.  A proxy
\* whose holder is built and whose meta_ is not yet bound is not alive.
ThreadConstructHolder(p, T, v) ==
  /\ Running /\ ~alive[p] /\ ~Live(buf[p])
  /\ HasPolyConstructor(make_proxy_holder(T))
  /\ \E t \in HolderCtor(Cur, p, make_proxy_holder(T), v, FALSE) :
       /\ buf' = t.buf
       /\ heap' = t.heap
       /\ last' = [NoCall EXCEPT !.op = "construct_holder", !.x = p,
                                 !.out = Outcome(t), !.hook = t.hook]
  /\ UNCHANGED <<F, alive, meta>>

ThreadBindTable(p) ==
  /\ Running /\ ~alive[p] /\ Live(buf[p])
  /\ meta' = [meta EXCEPT ![p] = meta_storage(buf[p].ty)]
  /\ alive' = [alive EXCEPT ![p] = TRUE]
  /\ last' = [NoCall EXCEPT !.op = "bind_table", !.x = p]
  /\ UNCHANGED <<F, buf, heap>>

NextThreads ==
  \/ \E p \in Slots, T \in ValueTypes, v \in Values : ThreadConstructHolder(p, T, v)
  \/ \E p \in Slots : ThreadBindTable(p)
  \/ \E p \in Slots, A \in ExactArgTypes, v \in Values : Invoke(p, A, v)
  \/ \E p \in Slots : Reflect(p)
  \/ \E p \in Slots : Destroy(p)

SpecThreads == Init /\ [][NextThreads]_vars

\* =============================================================== claims
\* what a proxy holds, read from the holder that lives in its buffer
HeldValue(p) ==
  IF buf[p].ty.kind = "deep"
  THEN IF buf[p].blk = 0 THEN 0 ELSE heap[buf[p].blk]
  ELSE buf[p].val
\* the (table, type, value) of proxy p
Content(p) == [table |-> meta[p], ty |-> buf[p].ty, val |-> HeldValue(p)]
EmptyContent == [table |-> NULL, ty |-> NoType, val |-> 0]
Engaged(p) == alive[p] /\ meta[p] # NULL /\ Live(buf[p])
\* a lifetime hook (constructor, copy, move or destroy) threw in the call l
HookFailed(l) == l.out \in {"threw", "terminate"} /\ l.op \notin {"invoke", "reflect"}

TableMatchesHolder(p) ==
  /\ (meta[p] = NULL) <=> ~Live(buf[p])
  /\ meta[p] # NULL => meta[p] \in 1..NumTables /\ TableAt(meta[p]) = buf[p].ty
AllMatch == \A p \in Slots : alive[p] => TableMatchesHolder(p)

\* C1: no proxy is alive at Init, and every call in which no hook fails keeps
\* this true of every proxy: meta_ is null exactly when no holder lives in the
\* buffer, and a non-null meta_ is the table of the type of the holder that
\* lives there.
C1_TableMatchesHolder ==
  /\ AllMatch
  /\ [][(AllMatch /\ ~HookFailed(last')) => AllMatch']_vars

\* C1 witness: a swap has moved a deep_ptr holder from a into the empty b
C1_Witness ==
  /\ last.op = "swap" /\ last.out = "ok" /\ last.x = "a" /\ last.y = "b"
  /\ alive["a"] /\ meta["a"] = NULL
  /\ alive["b"] /\ meta["b"] = meta_storage(deep_ptr("obj")) /\ Live(buf["b"])

\* a move, as assignment or construction, of proxy l.y into another proxy l.x
\* that ran to its end
Moved(l) == l.op \in {"move_assign", "move_construct"} /\ l.out = "ok" /\ l.x # l.y

\* C2: after b = move(a) or constructing b from move(a), with a engaged and
\* a, b distinct: a has no value and no holder, b has the table a had and
\* holds the value a held, and ~proxy() on a would destroy no holder and
\* change nothing.  When a was empty, both are empty afterwards.
C2_MoveEmptiesSource ==
  [][\A x, y \in Slots :
       (Moved(last') /\ last'.x = x /\ last'.y = y) =>
         IF Engaged(y)
         THEN /\ meta'[y] = NULL
              /\ ~Live(buf'[y])
              /\ Content(x)' = Content(y)
              /\ Live(buf'[x])
              /\ \A t \in proxy_dtor(Cur, y)' :
                   ~t.bad /\ ~t.exc /\ t.buf = buf' /\ t.heap = heap'
         ELSE (meta[y] = NULL) => (meta'[y] = NULL /\ meta'[x] = NULL)]_vars

\* C2 witness: a nontrivial relocation has moved an sbo_ptr<obj> from b into a
C2_Witness ==
  /\ last.op = "move_assign" /\ last.out = "ok" /\ last.x = "a" /\ last.y = "b"
  /\ F.relocatability = nontrivial
  /\ meta["b"] = NULL /\ alive["b"]
  /\ meta["a"] = meta_storage(sbo_ptr("obj")) /\ buf["a"].val = MaxVal
\* C2 witness of the raw byte transfer
C2_WitnessTrivial ==
  /\ last.op = "move_construct" /\ last.out = "ok" /\ last.x = "a" /\ last.y = "b"
  /\ F.relocatability = trivial
  /\ meta["b"] = NULL /\ meta["a"] # NULL

\* C3 (as claimed): every swap in which no hook fails, of two proxies whose
\* tables match their holders, exchanges their (table, type, value), with
\* trivial relocatability too.
C3_SwapExchanges ==
  [][\A x, y \in Slots :
       (last'.op = "swap" /\ last'.x = x /\ last'.y = y /\ ~HookFailed(last')
          /\ AllMatch)
       => (Content(x)' = Content(y) /\ Content(y)' = Content(x))]_vars

\* C3, for the facades whose relocatability is not trivial: the swap as
\* claimed, and a second swap of the same two proxies restores both
C3_SwapExchangesNonTrivial ==
  [][\A x, y \in Slots :
       (last'.op = "swap" /\ last'.x = x /\ last'.y = y /\ ~HookFailed(last')
          /\ AllMatch /\ F.relocatability # trivial)
       => /\ Content(x)' = Content(y) /\ Content(y)' = Content(x)
          /\ \A t \in swap(Cur, x, y)' :
               ~t.exc => /\ t.meta[x] = meta[x] /\ t.meta[y] = meta[y]
                         /\ t.buf[x].ty = buf[x].ty /\ t.buf[y].ty = buf[y].ty
                         /\ Deref(t, x, t.buf[x].ty) = HeldValue(x)
                         /\ Deref(t, y, t.buf[y].ty) = HeldValue(y)]_vars

\* a copy, as assignment or construction, of proxy l.y into another proxy l.x
\* that ran to its end
Copied(l) == l.op \in {"copy_assign", "copy_construct"} /\ l.out = "ok" /\ l.x # l.y

\* C4: a copy of y into x leaves y as it was; when y is engaged, x gets y's
\* table and an equal value in a holder of its own (for deep_ptr a block at
\* another address than y's), and when y is empty, x is empty.  Every call
\* made on x alone - invoke storing a new value, reset, assignment of a value
\* or nullptr, emplace, destruction - leaves what y holds untouched.
C4_CopyIndependent ==
  [][\A x, y \in Slots :
       /\ (Copied(last') /\ last'.x = x /\ last'.y = y) =>
            /\ meta'[y] = meta[y] /\ buf'[y] = buf[y] /\ HeldValue(y)' = HeldValue(y)
            /\ Engaged(y) =>
                 /\ Engaged(x)'
                 /\ meta'[x] = meta[y]
                 /\ buf'[x].ty = buf[y].ty
                 /\ HeldValue(x)' = HeldValue(y)
                 /\ buf[y].ty.kind = "deep" =>
                      (buf'[x].blk # 0 /\ buf'[x].blk # buf'[y].blk)
            /\ (meta[y] = NULL) => (meta'[x] = NULL)
       /\ (x # y /\ last' # last /\ last'.x = x /\ last'.y \in {x, "-"} /\ alive[y]) =>
            /\ alive'[y]
            /\ meta'[y] = meta[y] /\ buf'[y] = buf[y] /\ HeldValue(y)' = HeldValue(y)]_vars

\* C4 witness: a holds a deep_ptr copied from b, and a call through a has
\* since stored another value in a's block
C4_Witness ==
  /\ last.op = "invoke" /\ last.x = "a" /\ last.out = "ok"
  /\ Engaged("a") /\ Engaged("b")
  /\ buf["a"].ty = deep_ptr("obj") /\ buf["b"].ty = deep_ptr("obj")
  /\ buf["a"].blk # buf["b"].blk
  /\ HeldValue("a") # HeldValue("b")
  /\ F.copyability = nontrivial

\* C5 (as claimed): a copy assignment that throws leaves every proxy, and the
\* free store, as they were before it.
C5_FailedCopyAssignUnchanged ==
  [][(last'.op = "copy_assign" /\ last'.out = "threw" /\ last'.x # last'.y /\ AllMatch)
       => (meta' = meta /\ buf' = buf /\ heap' = heap)]_vars

\* C6 (as claimed): when x = move(y) is not noexcept and the move entry
\* throws, x is empty with no holder in its buffer, no holder was destroyed
\* twice, and y keeps its table and its holder.
C6_FailedMoveAssign ==
  [][\A x, y \in Slots :
       (last'.op = "move_assign" /\ last'.out = "threw" /\ last'.hook = "move"
          /\ last'.x = x /\ last'.y = y /\ AllMatch /\ ~HasNothrowMoveAssignment)
       => /\ meta'[x] = NULL /\ ~Live(buf'[x])
          /\ ~last'.bad
          /\ meta'[y] = meta[y] /\ Live(buf'[y])]_vars

\* C7: invoke on an engaged proxy p, however p came to hold its value, does
\* what the implementation of the bound overload does on the held value: it
\* throws exactly when the implementation throws, returns the implementation's
\* result otherwise, stores what the implementation stores, and changes
\* nothing else of p.
C7_InvokeIsDirectCall ==
  [][\A p \in Slots :
       (last'.op = "invoke" /\ last'.x = p /\ Engaged(p)) =>
         LET T == buf[p].ty.vt
             O == last'.argT
             held == HeldValue(p)
             x == last'.arg
         IN  /\ last'.sig = O
             /\ IF ImplThrows(T, O, held, x)
                THEN last'.out = "threw"
                ELSE last'.out = "ok" /\ last'.res = ImplResult(T, O, held, x)
             /\ HeldValue(p)' = ImplStore(T, O, held, x)
             /\ meta'[p] = meta[p] /\ buf'[p].ty = buf[p].ty /\ alive' = alive]_vars

\* C7 witness: a call through a proxy whose value lives in a heap block
\* returned the result of obj's (int) overload and stored the argument
C7_Witness ==
  /\ last.op = "invoke" /\ last.x = "a" /\ last.out = "ok" /\ last.sig = "int"
  /\ Engaged("a") /\ buf["a"].ty = deep_ptr("obj")
  /\ last.arg = 1 /\ last.res = ImplResult("obj", "int", MaxVal, 1)
  /\ HeldValue("a") = 1

\* C8 (as claimed): no call of invoke or reflect reads through a null meta_.
C8_EmptyRejected ==
  last.op \in {"invoke", "reflect"} => last.out \notin {"crash", "ub"}

\* C9: proxies that hold the same holder type, whichever thread built them and
\* however the threads interleaved, have the same meta_; it is the address of
\* the one table of that type, whose entries are those instantiated for the
\* type; and no step changes the entries of any table.
C9_OneTablePerType ==
  /\ [](\A p, q \in Slots :
          (alive[p] /\ alive[q] /\ Live(buf[p]) /\ buf[p].ty = buf[q].ty)
            => meta[p] = meta[q])
  /\ [](\A p \in Slots :
          (alive[p] /\ Live(buf[p])) =>
            /\ meta[p] \in 1..NumTables
            /\ TableAt(meta[p]) = buf[p].ty
            /\ meta_of(TableAt(meta[p])) = meta_of(buf[p].ty))
  /\ [][\A i \in 1..NumTables : meta_of(TableAt(i))' = meta_of(TableAt(i))]_vars

\* C9 witness: the two threads' proxies are alive with holders of the same
\* type, the second bound while the first was already in use
C9_Witness ==
  /\ last.op = "bind_table" /\ last.x = "b"
  /\ alive["a"] /\ alive["b"]
  /\ buf["a"].ty = deep_ptr("obj") /\ buf["b"].ty = deep_ptr("obj")
  /\ HeldValue("a") # HeldValue("b")

CopyEntry(p) == meta_of(TableAt(meta[p])).copy

\* C11 (as claimed): the table of every engaged proxy has a copy entry exactly
\* when the facade's copyability is greater than none.
C11_CopyEntryAboveNone ==
  \A p \in Slots :
    Engaged(p) => ((CopyEntry(p) # Absent) <=> (F.copyability > none))

\* C11 (amended): the table of every engaged proxy has a copy entry exactly
\* when the facade's copyability is nontrivial or nothrow, and the entry is
\* the one instantiated for the type of the holder.  A copy construction from
\* an engaged proxy y that returns normally is, with such an entry, one of the
\* outcomes of that entry run on y's buffer followed by meta_ = rhs.meta_: a
\* holder of y's type built from y's holder.  With trivial copyability the
\* table has no copy entry, and the copy is a copy of meta_ and of the bytes
\* of the buffer.
C11_CopyEntry ==
  /\ [](\A p \in Slots :
          (Engaged(p) /\ TableMatchesHolder(p)) =>
            /\ (CopyEntry(p) # Absent) <=> (F.copyability \in {nontrivial, nothrow})
            /\ CopyEntry(p) # Absent => CopyEntry(p) = buf[p].ty)
  /\ [][\A x, y \in Slots :
          (last'.op = "copy_construct" /\ last'.out = "ok" /\ last'.x = x /\ last'.y = y
             /\ Engaged(y) /\ TableMatchesHolder(y))
          => /\ meta'[x] = meta[y] /\ buf'[x].ty = buf[y].ty
             /\ IF CopyEntry(y) # Absent
                THEN \E t \in copyability_dispatcher(Cur, x, y, CopyEntry(y)) :
                       ~t.exc /\ buf'[x] = t.buf[x] /\ heap' = t.heap
                ELSE F.copyability = trivial /\ buf'[x] = buf[y] /\ heap' = heap]_vars

\* C11 witness: a copy construction under trivial copyability, between proxies
\* whose table has no copy entry
C11_Witness ==
  /\ last.op = "copy_construct" /\ last.out = "ok" /\ last.x = "b" /\ last.y = "a"
  /\ F.copyability = trivial
  /\ Engaged("a") /\ Engaged("b") /\ meta["b"] = meta["a"]
  /\ CopyEntry("a") = Absent
  /\ HeldValue("b") = MaxVal

\* C11: a copy construction that ran the copy entry of a deep_ptr
C11_WitnessEntry ==
  /\ last.op = "copy_construct" /\ last.out = "ok" /\ last.x = "b" /\ last.y = "a"
  /\ F.copyability = nontrivial
  /\ Engaged("a") /\ Engaged("b")
  /\ CopyEntry("a") = deep_ptr("obj") /\ buf["b"].blk # buf["a"].blk

\* In machine state s, every holder has one owner: a proxy or temporary has a
\* non-null meta_ exactly when a holder lives in its buffer, the table is the
\* one of that holder's type, no two deep_ptr holders have the same block, and
\* every allocated block is the block of a holder.
OneOwner(s) ==
  /\ \A p \in AllSlots :
       /\ (s.meta[p] = NULL) <=> ~Live(s.buf[p])
       /\ s.meta[p] # NULL => TableAt(s.meta[p]) = s.buf[p].ty
       /\ (Live(s.buf[p]) /\ s.buf[p].ty.kind = "deep") => s.buf[p].blk # 0
  /\ \A p, q \in AllSlots :
       (p # q /\ s.buf[p].blk # 0) => s.buf[p].blk # s.buf[q].blk
  /\ \A a \in Addrs :
       s.heap[a] # 0 => \E p \in AllSlots : Live(s.buf[p]) /\ s.buf[p].blk = a
  /\ ~s.bad /\ ~s.leak

\* the same of the state between calls: only proxies within their lifetime
\* hold anything, and with no proxy left no block is left
Owned ==
  /\ OneOwner(Cur)
  /\ \A p \in AllSlots : (p \notin Slots \/ ~alive[p]) => (meta[p] = NULL /\ ~Live(buf[p]))
  /\ (\A p \in Slots : ~alive[p]) => (\A a \in Addrs : heap[a] = 0)

\* the states inside x.swap(y) after each of its relocations, none of which
\* threw
SwapSteps(x, y) ==
  LET first == {t \in proxy_move(Cur, "temp", x) : ~t.exc}
      second == UNION {{u \in proxy_move(t, x, y) : ~u.exc} : t \in first}
      third == UNION {{w \in proxy_move(u, y, "temp") : ~w.exc} : u \in second}
  IN  first \cup second \cup third

\* C12: nothing is owned at Init, and every call in which no hook fails takes
\* a state where every holder has one owner to such a state again, without
\* running a destructor on a buffer whose holder is gone (destroyed or
\* relocated away) and without giving up storage in which a holder still
\* lives; inside swap, with itself too, the same holds after each relocation;
\* when the last proxy is destroyed no block is left.
C12_SingleOwnership ==
  /\ Owned
  /\ [][(Owned /\ ~HookFailed(last') /\ last'.out # "ill_formed") =>
          /\ Owned'
          /\ ~last'.bad /\ ~last'.leak
          /\ \A x, y \in Slots :
               (last'.op = "swap" /\ last'.x = x /\ last'.y = y
                  /\ meta[x] # NULL /\ meta[y] # NULL)
               => \A t \in SwapSteps(x, y) : OneOwner(t)]_vars

\* C12 witness: a swap of two engaged proxies, one of them with a deep_ptr
\* holder, has returned
C12_Witness ==
  /\ last.op = "swap" /\ last.out = "ok" /\ last.x = "a" /\ last.y = "b"
  /\ ~last.bad /\ ~last.leak
  /\ Owned /\ Engaged("a") /\ Engaged("b")
  /\ buf["a"].ty = deep_ptr("obj") /\ buf["b"].ty = sbo_ptr("int")

\* C12: a proxy swapped with itself keeps its holder
C12_WitnessSelfSwap ==
  /\ last.op = "swap" /\ last.out = "ok" /\ last.x = "a" /\ last.y = "a"
  /\ Owned /\ Engaged("a") /\ buf["a"].ty = deep_ptr("obj")

\* C12: the last proxy of a facade with a destroy entry is destroyed, and no
\* block is left
C12_WitnessAllDestroyed ==
  /\ last.op = "destroy" /\ last.out = "ok" /\ ~last.bad /\ ~last.leak
  /\ F.destructibility = nontrivial
  /\ \A p \in Slots : ~alive[p]
  /\ \A a \in Addrs : heap[a] = 0

\* C13: p.emplace<P>(v), P the holder make_proxy would choose for T, on a
\* proxy that is empty or engaged.  When it returns, p is engaged with a
\* holder of P that holds v, bound to the table of P, and the old holder was
\* destroyed once (its block, if any, was freed before the new one was
\* allocated).  When the construction of the new holder throws, p is empty
\* with a null meta_ and no holder in its buffer, the old holder was destroyed
\* once and only its block was freed, and ~proxy() on p afterwards destroys
\* nothing.  The other proxy is untouched either way.
C13_Emplace ==
  [][\A x \in Slots, T \in ValueTypes :
       (last'.op = "emplace" /\ last'.x = x /\ last'.argT = T /\ Owned
          /\ ~(last'.out = "threw" /\ last'.hook = "destroy"))
       => LET P == make_proxy_holder(T)
              old == buf[x]
              freed == IF old.blk # 0 THEN [heap EXCEPT ![old.blk] = 0] ELSE heap
          IN  /\ ~last'.bad /\ ~last'.leak
              /\ last'.out \in {"ok", "threw"}
              /\ \A q \in Slots \ {x} : meta'[q] = meta[q] /\ buf'[q] = buf[q]
                                        /\ HeldValue(q)' = HeldValue(q)
              /\ last'.out = "ok" =>
                   /\ Engaged(x)' /\ Owned'
                   /\ buf'[x].ty = P /\ meta'[x] = meta_storage(P)
                   /\ HeldValue(x)' = last'.arg
                   /\ P.kind = "deep" =>
                        heap' = [freed EXCEPT ![buf'[x].blk] = last'.arg]
                   /\ P.kind = "sbo" => heap' = freed
              /\ last'.out = "threw" =>
                   /\ last'.hook = "construct"
                   /\ meta'[x] = NULL /\ ~Live(buf'[x]) /\ ~Engaged(x)'
                   /\ heap' = freed
                   /\ Owned'
                   /\ \A t \in proxy_dtor(Cur, x)' :
                        ~t.bad /\ ~t.exc /\ t.buf = buf' /\ t.heap = heap']_vars

\* C13 witness: the construction of the new holder threw inside emplace, and
\* the proxy is empty with nothing left on the free store
C13_Witness ==
  /\ last.op = "emplace" /\ last.out = "threw" /\ last.hook = "construct"
  /\ last.x = "a" /\ last.argT = "obj"
  /\ alive["a"] /\ meta["a"] = NULL /\ ~Live(buf["a"])
  /\ \A a \in Addrs : heap[a] = 0
  /\ F.destructibility = nothrow

\* C13: emplace replaced an int by an obj in a heap block
C13_WitnessEngaged ==
  /\ last.op = "emplace" /\ last.out = "ok" /\ last.x = "a" /\ last.argT = "obj"
  /\ Engaged("a") /\ buf["a"].ty = deep_ptr("obj") /\ HeldValue("a") = MaxVal

\* a call l of a = a, a = move(a) or a.swap(a)
SelfCall(l) == l.op \in {"copy_assign", "move_assign", "swap"} /\ l.x = l.y

\* proxy x is after the step what it was before it: same status, same table,
\* a holder of the same type with an equal value, and the holder it
\* references lives
Preserved(x) ==
  /\ alive'[x]
  /\ Engaged(x)' <=> Engaged(x)
  /\ meta'[x] = meta[x]
  /\ buf'[x].ty = buf[x].ty
  /\ HeldValue(x)' = HeldValue(x)
  /\ TableMatchesHolder(x)'

\* C14 (as claimed): every self-assignment and self-swap of a proxy whose
\* holder has one owner leaves the proxy as it was.
C14_SelfPreserved ==
  [][\A x \in Slots :
       (SelfCall(last') /\ last'.x = x /\ Owned) => Preserved(x)]_vars

\* C14, for the calls that return: the proxy is as it was, nothing was
\* destroyed twice or given up, and the other proxy is untouched
C14_SelfPreservedOnReturn ==
  [][\A x \in Slots :
       (SelfCall(last') /\ last'.x = x /\ Owned /\ last'.out = "ok")
       => /\ Preserved(x)
          /\ Owned' /\ ~last'.bad /\ ~last'.leak
          /\ \A q \in Slots \ {x} : meta'[q] = meta[q] /\ buf'[q] = buf[q]]_vars

\* C15 (as claimed): when the destroy entry throws inside reset() - called
\* directly, from emplace, or from the move assignment that is not noexcept -
\* the proxy is not left with a non-null meta_ over the holder whose
\* destruction was attempted, and ~proxy() afterwards does not run the destroy
\* entry on that holder again.
C15_NoDanglingAfterFailedDestroy ==
  [][\A x \in Slots :
       (last'.op \in {"reset", "emplace", "move_assign"} /\ last'.x = x
          /\ last'.out = "threw" /\ last'.hook = "destroy"
          /\ F.destructibility = nontrivial /\ Owned)
       => /\ ~(meta'[x] # NULL /\ ~Live(buf'[x]))
          /\ \A t \in proxy_dtor(Cur, x)' : ~t.bad]_vars

====
